---- MODULE Spec2Model ----
(***************************************************************************)
(* Model of github.com/takama/router: the trailing-wildcard parser         *)
(* (registry of patterns per HTTP method, register / get / parseParams /   *)
(* routes), the Router built on it (Handle, Lookup, AllowedMethods,        *)
(* ServeHTTP, Routes) and the Control of a request (Set, Get, Code).       *)
(*                                                                         *)
(* A Go string is modelled as the sequence of its characters, each a       *)
(* one-character TLA+ string, so that trim / explode / split / join work   *)
(* on characters exactly as the code does.  A Handle (a Go function value) *)
(* is modelled by a positive integer identifying the function; 0 is nil.   *)
(***************************************************************************)
EXTENDS Integers, Sequences, FiniteSets, TLC

VARIABLES handlers, regs, lookup, cfg, req, gapPass, control, call, glob

vars == <<handlers, regs, lookup, cfg, req, gapPass, control, call, glob>>

-----------------------------------------------------------------------------
(* Program constants *)

maxLevel == 255

asterisk == <<"*">>

NoHandle == 0

-----------------------------------------------------------------------------
(* Bounds of the model *)

\* number of Handle calls made during setup in SpecParser
MaxRegs == 3

\* number of Handle calls made during setup in Spec
MaxRoutes == 2

\* number of Handle calls made during setup in SpecSort
MaxSortRegs == 7

\* number of requests served one after the other in SpecServe
MaxServed == 3

\* number of parameters that a Control holds in SpecControl
MaxParams == 3

\* length of the strings given to split in SpecSegment
MaxLen == 4

-----------------------------------------------------------------------------
(* Go maps: a map is a function on the finite set of its keys *)

EmptyMap == <<>>

HasKey(m, k) == k \in DOMAIN m

MapPut(m, k, v) == [x \in (DOMAIN m) \cup {k} |-> IF x = k THEN v ELSE m[x]]

-----------------------------------------------------------------------------
(* String helpers of the parser *)

RECURSIVE trimLeft(_, _)
trimLeft(str, sep) ==
    IF Len(str) >= 1 /\ str[1] = sep THEN trimLeft(Tail(str), sep) ELSE str

RECURSIVE trimRight(_, _)
trimRight(str, sep) ==
    IF Len(str) >= 1 /\ str[Len(str)] = sep
    THEN trimRight(SubSeq(str, 1, Len(str) - 1), sep)
    ELSE str

\* trim without its second loop
trimLeftOnly(str, sep) == trimLeft(str, sep)

trim(str, sep) == trimRight(trimLeft(str, sep), sep)

\* explode: the parts of s between consecutive "/".  The code counts the
\* separators (n - 1 of them) and cuts s at each; slashes(s) lists their
\* positions in increasing order.
slashes(s) == SelectSeq([i \in 1..Len(s) |-> i], LAMBDA i : s[i] = "/")

explode(s) ==
    IF Len(s) = 0
    THEN <<>>
    ELSE LET pos == slashes(s)
             n   == Len(pos) + 1
         IN  [k \in 1..n |-> SubSeq(s, IF k = 1 THEN 1 ELSE pos[k - 1] + 1,
                                       IF k = n THEN Len(s) ELSE pos[k] - 1)]

\* the loop of split without the trim of each part
splitLoopNoTrim(sdata) == SelectSeq(sdata, LAMBDA v : v # <<>>)

\* the loop of split: every part trimmed of spaces, the empty ones skipped
splitLoop(sdata) ==
    SelectSeq([i \in 1..Len(sdata) |-> trim(sdata[i], " ")], LAMBDA v : v # <<>>)

\* split without the limit on the number of parts
splitUnbounded(path) ==
    LET sdata == explode(trim(path, "/"))
    IN  [parts |-> splitLoop(sdata), ok |-> TRUE]

split(path) ==
    LET sdata == explode(trim(path, "/"))
    IN  IF Len(sdata) = 0
        THEN [parts |-> <<>>, ok |-> TRUE]
        ELSE IF Len(sdata) < maxLevel
             THEN [parts |-> splitLoop(sdata), ok |-> TRUE]
             ELSE [parts |-> <<>>, ok |-> FALSE]

\* parts[lo] + "/" + ... + "/" + parts[hi], evaluated by halves
RECURSIVE joinRange(_, _, _)
joinRange(parts, lo, hi) ==
    IF lo = hi
    THEN parts[lo]
    ELSE LET mid == (lo + hi) \div 2
         IN  joinRange(parts, lo, mid) \o <<"/">> \o joinRange(parts, mid + 1, hi)

join(parts) ==
    IF Len(parts) = 0 THEN <<>>
    ELSE IF Len(parts) = 1 THEN parts[1]
    ELSE joinRange(parts, 1, Len(parts))

\* join(parts) without the "/" in front
routeOfBare(parts) == join(parts)

\* "/" + join(parts)
routeOf(parts) == <<"/">> \o join(parts)

-----------------------------------------------------------------------------
(* Segment classification *)

isParam(value) == Len(value) >= 1 /\ value[1] = ":"

isWildcard(value) == Len(value) = 1 /\ value = asterisk

\* the counting loop of register: how many segments are static, dynamic
\* (parameters) and wildcard, a uint16 each
countParts(parts) ==
    [static   |-> Cardinality({k \in DOMAIN parts : ~isParam(parts[k]) /\ ~isWildcard(parts[k])}) % 65536,
     dynamic  |-> Cardinality({k \in DOMAIN parts : isParam(parts[k])}) % 65536,
     wildcard |-> Cardinality({k \in DOMAIN parts : ~isParam(parts[k]) /\ isWildcard(parts[k])}) % 65536]

\* dynamic<<8 + static, in uint16
recordKeySwapped(dynamic, static) == ((static * 256) + dynamic) % 65536

recordKey(dynamic, static) == ((dynamic * 256) + static) % 65536

-----------------------------------------------------------------------------
(* records: sort.Sort(records(...)) with Less(i, j) = key[i] < key[j].      *)
(* register sorts a bucket right after appending one record to it.          *)
(* sort.Sort is not a stable sort, and what it does to records of equal key *)
(* depends on the Go release the program is built with.  For a slice of at  *)
(* most 12 elements it is an insertion sort (an element moves left while it *)
(* is strictly less than its left neighbour), which the releases 1.7 to     *)
(* 1.18 precede by one ShellSort pass with gap 6; gapPass tells whether the *)
(* build makes that pass.  Buckets of more than 12 records are not reached. *)

Less(a, b) == a.key < b.key

RECURSIVE insertSorted(_, _)
insertSorted(data, rec) ==
    IF Len(data) = 0
    THEN <<rec>>
    ELSE IF Less(rec, data[Len(data)])
         THEN Append(insertSorted(SubSeq(data, 1, Len(data) - 1), rec), data[Len(data)])
         ELSE Append(data, rec)

RECURSIVE insertionSort(_)
insertionSort(data) ==
    IF Len(data) <= 1
    THEN data
    ELSE insertSorted(insertionSort(SubSeq(data, 1, Len(data) - 1)), data[Len(data)])

\* for i := 6; i < n; i++ { if Less(i, i-6) { Swap(i, i-6) } }: with n <= 12
\* no element takes part in two of the comparisons
gapSort(data) ==
    [k \in 1..Len(data) |->
        IF k + 6 <= Len(data) /\ Less(data[k + 6], data[k]) THEN data[k + 6]
        ELSE IF k > 6 /\ Less(data[k], data[k - 6]) THEN data[k - 6]
        ELSE data[k]]

sortRecords(data) == insertionSort(IF gapPass THEN gapSort(data) ELSE data)

\* append(bucket, record), the new record goes last
appendRecordFront(data, rec) == <<rec>> \o data

appendRecord(data, rec) == Append(data, rec)

-----------------------------------------------------------------------------
(* parser *)

newParser == [fields |-> EmptyMap, static |-> EmptyMap, wildcard |-> <<>>]

\* p.fields[level]; a missing key gives the nil slice
bucket(p, level) == IF HasKey(p.fields, level) THEN p.fields[level] ELSE <<>>

\* the result of split is used whether or not split accepted the pattern
registerUnchecked(p, path, handle) ==
    IF trim(path, " ") = asterisk
    THEN [p |-> [p EXCEPT !.static = MapPut(@, asterisk, handle)], ok |-> TRUE]
    ELSE LET s     == split(path)
             parts == s.parts
             c     == countParts(parts)
             rec   == [key |-> recordKey(c.dynamic, c.static), handle |-> handle, parts |-> parts]
             level == Len(parts) % 256
         IN  IF c.wildcard > 0
             THEN [p |-> [p EXCEPT !.wildcard = appendRecord(@, rec)], ok |-> s.ok]
             ELSE IF c.dynamic = 0
                  THEN [p |-> [p EXCEPT !.static = MapPut(@, routeOf(parts), handle)], ok |-> s.ok]
                  ELSE [p |-> [p EXCEPT !.fields =
                                  MapPut(@, level, sortRecords(appendRecord(bucket(p, level), rec)))],
                        ok |-> s.ok]

\* parser.register: the parser after the call and the value returned
register(p, path, handle) ==
    IF trim(path, " ") = asterisk
    THEN [p |-> [p EXCEPT !.static = MapPut(@, asterisk, handle)], ok |-> TRUE]
    ELSE LET s == split(path)
         IN  IF s.ok
             THEN LET parts == s.parts
                      c     == countParts(parts)
                      rec   == [key |-> recordKey(c.dynamic, c.static), handle |-> handle, parts |-> parts]
                      level == Len(parts) % 256
                  IN  IF c.wildcard > 0
                      THEN [p |-> [p EXCEPT !.wildcard = appendRecord(@, rec)], ok |-> TRUE]
                      ELSE IF c.dynamic = 0
                           THEN [p |-> [p EXCEPT !.static = MapPut(@, routeOf(parts), handle)], ok |-> TRUE]
                           ELSE [p |-> [p EXCEPT !.fields =
                                           MapPut(@, level, sortRecords(appendRecord(bucket(p, level), rec)))],
                                 ok |-> TRUE]
             ELSE [p |-> p, ok |-> FALSE]

\* results of get and parseParams; raised = TRUE models a run-time panic
\* (index out of range) raised instead of a return
NotFoundResult == [ok |-> FALSE, raised |-> FALSE, handle |-> NoHandle, params |-> <<>>, route |-> <<>>]

RaisedResult == [ok |-> FALSE, raised |-> TRUE, handle |-> NoHandle, params |-> <<>>, route |-> <<>>]

FoundResult(handle, params, route) ==
    [ok |-> TRUE, raised |-> FALSE, handle |-> handle, params |-> params, route |-> route]

\* the parameter is put in front of those bound so far
bindParamFront(result, value, part) == <<[Key |-> value, Value |-> part]>> \o result

\* result = append(result, Param{Key: value, Value: parts[idx]})
bindParam(result, value, part) == Append(result, [Key |-> value, Value |-> part])

\* the loop ends at a wildcard segment only when it is the last one
wildcardBreakLast(values, idx) == isWildcard(values[idx]) /\ idx = Len(values)

\* if len(value) == 1 && value == "*" { break }: found stays true
wildcardBreak(values, idx) == isWildcard(values[idx])

\* the inner loop of parseParams over the segments of one record:
\* "found", "rejected" or "raised" (parts[idx] read past the end of parts)
RECURSIVE matchRecord(_, _, _, _)
matchRecord(values, parts, idx, result) ==
    IF idx > Len(values)
    THEN [st |-> "found", result |-> result]
    ELSE LET value == values[idx]
         IN  IF wildcardBreak(values, idx)
             THEN [st |-> "found", result |-> result]
             ELSE IF idx > Len(parts)
                  THEN [st |-> "raised", result |-> <<>>]
                  ELSE IF value # parts[idx] /\ ~isParam(value)
                       THEN [st |-> "rejected", result |-> <<>>]
                       ELSE IF isParam(value)
                            THEN matchRecord(values, parts, idx + 1,
                                             bindParam(result, value, parts[idx]))
                            ELSE matchRecord(values, parts, idx + 1, result)

RECURSIVE parseLoop(_, _, _)
parseLoop(data, parts, i) ==
    IF i > Len(data)
    THEN NotFoundResult
    ELSE LET m == matchRecord(data[i].parts, parts, 1, <<>>)
         IN  IF m.st = "raised" THEN RaisedResult
             ELSE IF m.st = "found"
                  THEN FoundResult(data[i].handle, m.result, data[i].parts)
                  ELSE parseLoop(data, parts, i + 1)

\* parseParams: route holds the matched record's parts
parseParams(data, parts) == parseLoop(data, parts, 1)

\* parser.get from the segmentation of the path on: canonical exact lookup,
\* the bucket of the path's segment count, then the wildcard records
getSplit(p, path) ==
    LET s == split(path)
    IN  IF ~s.ok
        THEN NotFoundResult
        ELSE LET parts == s.parts
                 data  == bucket(p, Len(parts) % 256)
                 byLen == IF data # <<>> THEN parseParams(data, parts) ELSE NotFoundResult
             IN  IF HasKey(p.static, routeOf(parts))
                 THEN FoundResult(p.static[routeOf(parts)], <<>>, routeOf(parts))
                 ELSE IF byLen.raised THEN RaisedResult
                 ELSE IF byLen.ok
                 THEN FoundResult(byLen.handle, byLen.params, routeOf(byLen.route))
                 ELSE LET wc == parseParams(p.wildcard, parts)
                      IN  IF wc.raised THEN RaisedResult
                          ELSE IF wc.ok
                          THEN FoundResult(wc.handle, wc.params, routeOf(wc.route))
                          ELSE NotFoundResult

\* parser.get from the exact lookup of the raw path on
getExact(p, path) ==
    IF HasKey(p.static, path)
    THEN FoundResult(p.static[path], <<>>, path)
    ELSE getSplit(p, path)

\* get without the catch-all lookup
getNoCatchAll(p, path) == getExact(p, path)

\* parser.get
get(p, path) ==
    IF HasKey(p.static, asterisk)
    THEN FoundResult(p.static[asterisk], <<>>, asterisk)
    ELSE getExact(p, path)

-----------------------------------------------------------------------------
(* The glob-based parser (parser.go): the wildcard patterns are kept in a   *)
(* map from the pattern as registered to its handler, and get matches them  *)
(* with doublestar.Match.                                                   *)

newGlobParser == [fields |-> EmptyMap, static |-> EmptyMap, wildcard |-> EmptyMap]

\* strings.Contains(path, asterisk)
containsAsterisk(path) == \E i \in DOMAIN path : path[i] = "*"

\* parser.register of parser.go: three statements one after the other, the
\* catch-all, the wildcard map, then the segmented pattern (a "*" segment
\* counts as static there)
globRegister(p, path, handle) ==
    LET p1 == IF trim(path, " ") = asterisk
              THEN [p EXCEPT !.static = MapPut(@, asterisk, handle)]
              ELSE p
        p2 == IF containsAsterisk(path)
              THEN [p1 EXCEPT !.wildcard = MapPut(@, path, handle)]
              ELSE p1
        s  == split(path)
        c  == countParts(s.parts)
        rec == [key |-> recordKey(c.dynamic, (c.static + c.wildcard) % 65536),
                handle |-> handle, parts |-> s.parts]
        level == Len(s.parts) % 256
    IN  IF ~s.ok THEN [p |-> p2, ok |-> FALSE]
        ELSE IF c.dynamic = 0
        THEN [p |-> [p2 EXCEPT !.static = MapPut(@, routeOf(s.parts), handle)], ok |-> TRUE]
        ELSE [p |-> [p2 EXCEPT !.fields =
                        MapPut(@, level, sortRecords(appendRecord(bucket(p2, level), rec)))],
              ok |-> TRUE]

\* doublestar.Match on the components of pattern and name: "**" stands for
\* any number of components, "*" for any one component, every other
\* component for itself
RECURSIVE matchComponents(_, _, _, _)
matchComponents(pat, name, i, j) ==
    IF i > Len(pat)
    THEN j > Len(name)
    ELSE IF pat[i] = <<"*", "*">>
         THEN \E k \in j..(Len(name) + 1) : matchComponents(pat, name, i + 1, k)
         ELSE /\ j <= Len(name)
              /\ (pat[i] = asterisk \/ pat[i] = name[j])
              /\ matchComponents(pat, name, i + 1, j + 1)

doublestarMatch(pattern, name) == matchComponents(explode(pattern), explode(name), 1, 1)

\* strings.HasSuffix(str, suffix)
hasSuffix(str, suffix) ==
    Len(str) >= Len(suffix) /\ SubSeq(str, Len(str) - Len(suffix) + 1, Len(str)) = suffix

\* the loop over the suffixes "/*" and "/**": each is cut off when present
stripSuffixes(wildcard) ==
    LET cut(str, suffix) == IF hasSuffix(str, suffix)
                            THEN SubSeq(str, 1, Len(str) - Len(suffix))
                            ELSE str
    IN  cut(cut(wildcard, <<"/">> \o asterisk), <<"/">> \o asterisk \o asterisk)

\* one step of the loop over p.wildcard in get
wildcardHit(wildcard, path) ==
    doublestarMatch(wildcard, path) \/ stripSuffixes(wildcard) = path

\* the scan of one byLength bucket in get: the first record whose literal
\* segments equal the path's, with its parameters bound in order
globParse(data, parts) ==
    LET fits(rec) == \A idx \in DOMAIN rec.parts :
                         isParam(rec.parts[idx]) \/ rec.parts[idx] = parts[idx]
        hits == SelectSeq(data, fits)
        at(values) == SelectSeq([k \in DOMAIN values |-> k], LAMBDA k : isParam(values[k]))
    IN  IF Len(hits) = 0
        THEN NotFoundResult
        ELSE LET values == hits[1].parts
                 idxs   == at(values)
             IN  FoundResult(hits[1].handle,
                             [n \in DOMAIN idxs |-> [Key |-> values[idxs[n]], Value |-> parts[idxs[n]]]],
                             <<>>)

\* parser.get of parser.go; order is the order in which this call's range
\* statement visits the keys of p.wildcard
globGet(p, path, order) ==
    IF HasKey(p.static, asterisk)
    THEN FoundResult(p.static[asterisk], <<>>, <<>>)
    ELSE IF HasKey(p.static, path)
    THEN FoundResult(p.static[path], <<>>, <<>>)
    ELSE LET hits == SelectSeq(order, LAMBDA k : wildcardHit(k, path))
             s    == split(path)
         IN  IF Len(hits) > 0
             THEN FoundResult(p.wildcard[hits[1]], <<>>, <<>>)
             ELSE IF ~s.ok
             THEN NotFoundResult
             ELSE IF HasKey(p.static, routeOf(s.parts))
             THEN FoundResult(p.static[routeOf(s.parts)], <<>>, <<>>)
             ELSE globParse(bucket(p, Len(s.parts) % 256), s.parts)

-----------------------------------------------------------------------------
(* Inputs *)

\* patterns, as the strings passed to Handle
P_star    == <<"*">>
P_starSp  == <<" ", "*", " ">>
P_root    == <<"/">>
P_a       == <<"/", "a">>
P_ab      == <<"/", "a", "/", "b">>
P_x       == <<"/", ":", "x">>
P_ax      == <<"/", "a", "/", ":", "x">>
P_yb      == <<"/", ":", "y", "/", "b">>
P_xy      == <<"/", ":", "x", "/", ":", "y">>
P_aStar   == <<"/", "a", "/", "*">>
P_abStar  == <<"/", "a", "/", "b", "/", "*">>
P_xStar   == <<"/", ":", "x", "/", "*">>

\* request paths
R_empty   == <<>>
R_root    == <<"/">>
R_a       == <<"/", "a">>
R_ab      == <<"/", "a", "/", "b">>
R_abSl    == <<"/", "a", "/", "/", "b", " ", "/">>
R_abc     == <<"/", "a", "/", "b", "/", "c">>
R_cb      == <<"/", "c", "/", "b">>
R_cd      == <<"/", "c", "/", "d">>
\* a path of maxLevel slash-delimited parts, which split refuses
R_deep    == [i \in 1..(2 * maxLevel) |-> IF i % 2 = 1 THEN "/" ELSE "a"]

\* "/a" and "b" with maxLevel - 1 slashes between them: the segments of /a/b
\* in maxLevel slash-delimited parts
R_aGapB   == [i \in 1..(maxLevel + 2) |-> IF i = 2 THEN "a" ELSE IF i = maxLevel + 2 THEN "b" ELSE "/"]
R_abT     == <<"/", "a", "/", "b", "/">>
R_c       == <<"/", "c">>
R_sp      == <<" ">>
R_slashes == <<"/", "/">>

\* "/a" n times: a path of n slash-delimited parts
Deep(n) == [i \in 1..(2 * n) |-> IF i % 2 = 1 THEN "/" ELSE "a"]

\* the patterns and paths of SpecSplit, around maxLevel parts
SplitPatterns == {P_ab, Deep(maxLevel - 1), Deep(maxLevel)}

SplitPaths == {R_empty, R_ab, R_abSl, R_aGapB, Deep(maxLevel - 1), Deep(maxLevel), Deep(maxLevel + 1)}

\* the inputs of SpecSegment: every string of a slash, a space, a tab and a
\* letter up to MaxLen characters
Alphabet == {"/", " ", "\t", "a"}

SegmentInputs == UNION {[1..n -> Alphabet] : n \in 0..MaxLen}

\* the inputs of SpecControl: a pattern that repeats a parameter name and a
\* path for it, parameter and query keys and values, query strings (one of
\* them with two values of a key), the arguments of Set and of Code
P_nn      == <<"/", ":", "n", "/", ":", "n">>
R_12      == <<"/", "1", "/", "2">>

Names == {<<":", "n">>, <<"q">>}

Values == {<<"1">>, <<"2">>}

Pairs == [Key : Names, Value : Values]

Queries ==
    { <<>>,
      <<[Key |-> <<"q">>, Value |-> <<"1">>]>>,
      <<[Key |-> <<":", "n">>, Value |-> <<"2">>]>>,
      <<[Key |-> <<"q">>, Value |-> <<"2">>], [Key |-> <<"q">>, Value |-> <<"1">>]>>,
      <<[Key |-> <<":", "n">>, Value |-> <<"2">>], [Key |-> <<"q">>, Value |-> <<"1">>]>> }

SetArgs == {<<a>> : a \in Pairs} \cup {<<a, b>> : a \in Pairs, b \in Pairs}

Codes == {-1, 0, 199, 200, 404, 599, 600, 606}

\* the patterns of SpecRoutes
RoutesPatterns == {P_starSp, R_abSl, P_ax, P_aStar, R_deep}

RoutesMethods == {"GET", "POST"}

\* the request paths of SpecServe
ServePaths == {R_a, R_c, R_ab}

\* the patterns and paths of SpecSort: one bucket, two values of the key
SortPatterns == {P_ax, P_yb, P_xy}

SortPaths == {R_ab, R_cd}

\* the patterns and paths of SpecLiteral
LiteralPatterns == {P_star, P_root, P_ab, R_abSl, R_deep, P_aStar}

P_aStar2  == <<"/", "a", "/", "*", "*">>

GlobPatterns == {P_star, P_starSp, P_ab, P_ax, P_aStar, P_aStar2, P_xStar}

GlobPaths == {R_a, R_ab, R_abc, R_cb}

ReadMethods == {"GET", "DELETE"}

ReadPaths == {R_a, R_ab}

\* n - 1 literal segments and a parameter; n parameters
DeepParam(n) == Deep(n - 1) \o <<"/", ":", "x">>

AllParams(n) == [i \in 1..(3 * n) |-> IF i % 3 = 1 THEN "/" ELSE IF i % 3 = 2 THEN ":" ELSE "x"]

WrapPatterns == {P_x, DeepParam(maxLevel - 1), AllParams(maxLevel - 1),
                 DeepParam(maxLevel), AllParams(maxLevel + 2)}

WrapSplitPaths == {R_ab, Deep(maxLevel - 1), Deep(maxLevel)}

WrapPaths == {R_a, R_ab}

P_aStarB  == <<"/", "a", "/", "*", "/", "b">>
P_aStarY  == <<"/", "a", "/", "*", "/", ":", "y">>
P_xStarY  == <<"/", ":", "x", "/", "*", "/", ":", "y">>

TruncPatterns == {P_ab, P_aStar, P_aStarB, P_aStarY, P_xStarY}

TruncPaths == {R_root, R_a, R_ab, R_abc, R_cd, P_aStar}

FailRoutes ==
    { [method |-> "GET", path |-> P_ab], [method |-> "GET", path |-> P_ax],
      [method |-> "GET", path |-> R_aGapB], [method |-> "POST", path |-> R_aGapB],
      [method |-> "POST", path |-> P_starSp] }

FailPaths == {R_root, R_ab}

LiteralPaths == {R_empty, R_root, R_sp, R_slashes, R_ab, R_abT, R_abSl, R_aGapB, R_deep}

ParserPatterns == {P_star, P_starSp, P_ab, P_ax, P_yb, P_xy, P_aStar, P_abStar, P_xStar}

RouterPatterns == {P_x, P_abStar}

RouterPaths == {R_a, R_ab, R_cd}

ParserPaths == {R_empty, R_root, R_a, R_ab, R_abSl, R_abc, R_cb, R_deep}

ParserMethods == {"GET"}

Methods == {"GET", "POST", "PUT"}

\* the methods of the requests served
RequestMethods == {"GET", "POST"}

Slots == {"r1", "r2"}

-----------------------------------------------------------------------------
(* Control: the parameters bound to the request, the query string of the    *)
(* request URL as the list of its key/value pairs, and the status code      *)

\* &Control{Request: req, Writer: w}: no parameters, code 0
newControl(query) == [params |-> <<>>, query |-> query, code |-> 0]

\* Control.Set: the parameters are appended
controlSet(c, params) == [c EXCEPT !.params = @ \o params]

\* url.Values.Get: the first value of the key, "" when the key is absent
queryGet(query, name) ==
    LET hits == SelectSeq(query, LAMBDA q : q.Key = name)
    IN  IF hits = <<>> THEN <<>> ELSE hits[1].Value

\* Control.Get reading the query string first
controlGetQueryFirst(c, name) ==
    IF \E k \in DOMAIN c.query : c.query[k].Key = name
    THEN queryGet(c.query, name)
    ELSE LET hits == SelectSeq(c.params, LAMBDA prm : prm.Key = name)
         IN  IF hits = <<>> THEN <<>> ELSE hits[1].Value

\* Control.Get: the first parameter of that key, else the query string
controlGet(c, name) ==
    LET hits == SelectSeq(c.params, LAMBDA prm : prm.Key = name)
    IN  IF hits # <<>> THEN hits[1].Value ELSE queryGet(c.query, name)

\* Control.Code accepting 600
controlCodeUpTo600(c, code) ==
    IF code >= 200 /\ code <= 600 THEN [c EXCEPT !.code = code] ELSE c

\* Control.Code: the Control after the call, which is also the one returned
controlCode(c, code) ==
    IF code >= 200 /\ code < 600 THEN [c EXCEPT !.code = code] ELSE c

\* call holds the name, the argument and the value returned of the last
\* call made, when it was a call of Routes, split, Control.Get / Set / Code
NoCall == [op |-> "", arg |-> <<>>, ret |-> <<>>]

-----------------------------------------------------------------------------
(* Router *)

\* Router.Handle on the handlers map: the map after the call
routerHandle(hs, method, path, h) ==
    LET p0 == IF HasKey(hs, method) THEN hs[method] ELSE newParser
    IN  MapPut(hs, method, register(p0, path, h).p)

\* the value parser.register returns inside Router.Handle (Handle drops it)
registerOk(hs, method, path, h) ==
    register(IF HasKey(hs, method) THEN hs[method] ELSE newParser, path, h).ok

\* reading the parser of a method that has none adds an empty one
handlersReadCreating(hs, method) ==
    IF HasKey(hs, method) THEN hs ELSE MapPut(hs, method, newParser)

\* r.handlers[method] as an expression: the map after it has been read
handlersRead(hs, method) == hs

\* Router.Lookup, keeping the matched route that parser.get reports
routerLookup(hs, method, path) ==
    IF HasKey(hs, method) THEN get(hs[method], path) ELSE NotFoundResult

\* Router.AllowedMethods: the methods whose parser finds the path; the loop
\* visits every parser, so it raises when any get raises
allowedMethods(hs, path) ==
    [raised |-> \E m \in DOMAIN hs : get(hs[m], path).raised,
     methods |-> {m \in DOMAIN hs : get(hs[m], path).ok}]

\* the orders in which the range over the handlers map can list a set
Orderings(S) ==
    {f \in [1..Cardinality(S) -> S] : \A i, j \in 1..Cardinality(S) : f[i] = f[j] => i = j}

\* lookup holds the arguments and the result of the Lookup call when the
\* last call made on the Router was a Lookup
NoLookup == [method |-> "", path |-> <<>>, res |-> NotFoundResult, done |-> FALSE]

\* the optional fields of the Router: TRUE when the field is set
NoConfig == [NotFound |-> FALSE, PanicHandler |-> FALSE, CustomHandler |-> FALSE, Logger |-> FALSE]

Configs == [NotFound : BOOLEAN, PanicHandler : BOOLEAN, CustomHandler : BOOLEAN, Logger : BOOLEAN]

\* one ServeHTTP call: where it stands, its request, what it has done so
\* far (events, in order) and the result of its own lookup
\* served counts the calls that the goroutine of the slot has completed
\* before, last holds the parameters of the Control that the latest of them
\* passed to a handler
IdleReq == [pc |-> "idle", method |-> "", path |-> <<>>, events |-> <<>>, res |-> NotFoundResult,
            served |-> 0, last |-> <<>>]

\* CustomHandler is applied to whatever user function ServeHTTP calls
decoratedAll(kind) == cfg.CustomHandler /\ kind \in {"logger", "handler", "notfound", "panichandler"}

\* r.CustomHandler(handle)(c) when CustomHandler is set, else handle(c): the
\* only use that ServeHTTP makes of CustomHandler
decorated(kind) == cfg.CustomHandler /\ kind = "handler"

\* something ServeHTTP did: a call of a user function (Logger, the resolved
\* handler, NotFound, PanicHandler), a built-in response (http.NotFound,
\* the 405 with its Allow list) or the log line of the recovery.
\* custom: the handler went through CustomHandler / NotFound is the user's;
\* panicked: the user function called panicked instead of returning
\* wrapped: the function called is the result of CustomHandler
Ev(kind, handle, params, allowed, custom, panicked) ==
    [kind |-> kind, handle |-> handle, params |-> params, allowed |-> allowed,
     custom |-> custom, panicked |-> panicked, wrapped |-> decorated(kind)]

\* no ServeHTTP call has begun: registration happens during setup only
InSetup == \A r \in Slots : req[r].pc = "idle"

\* Router.Handle; the n-th registration passes handler function number n
Handle(method, path) ==
    /\ InSetup
    /\ LET h == Len(regs) + 1
       IN  /\ handlers' = routerHandle(handlers, method, path, h)
           /\ regs' = Append(regs, [method |-> method, path |-> path, handle |-> h,
                                    ok |-> registerOk(handlers, method, path, h)])
    /\ lookup' = NoLookup
    /\ call' = NoCall
    /\ UNCHANGED <<cfg, req, gapPass, glob, control>>

\* Router.Lookup
Lookup(method, path) ==
    /\ lookup' = [method |-> method, path |-> path,
                  res |-> routerLookup(handlers, method, path), done |-> TRUE]
    /\ handlers' = handlersRead(handlers, method)
    /\ UNCHANGED <<regs, cfg, req, gapPass, glob, control, call>>

\* Router.AllowedMethods called by the program: the methods in the order of
\* the range over the handlers map, or the panic of a get
AllowedMethods(path) ==
    /\ LET am == allowedMethods(handlers, path)
       IN  \E allowed \in Orderings(IF am.raised THEN {} ELSE am.methods) :
              call' = [op |-> "AllowedMethods", arg |-> path,
                       ret |-> [raised |-> am.raised, methods |-> allowed]]
    /\ UNCHANGED <<handlers, regs, lookup, cfg, req, gapPass, glob, control>>

\* split, called on its own
Split(path) ==
    /\ call' = [op |-> "split", arg |-> path, ret |-> split(path)]
    /\ UNCHANGED <<handlers, regs, lookup, cfg, req, gapPass, glob, control>>

\* Control.Set
ControlSet(params) ==
    /\ Len(control.params) + Len(params) <= MaxParams
    /\ control' = controlSet(control, params)
    /\ call' = [op |-> "Set", arg |-> params, ret |-> control']
    /\ UNCHANGED <<handlers, regs, lookup, cfg, req, gapPass, glob>>

\* Control.Get
ControlGet(name) ==
    /\ call' = [op |-> "Get", arg |-> name, ret |-> controlGet(control, name)]
    /\ UNCHANGED <<handlers, regs, lookup, cfg, req, gapPass, glob, control>>

\* Control.Code; the value returned is the Control the call was made on
ControlCode(code) ==
    /\ control' = controlCode(control, code)
    /\ call' = [op |-> "Code", arg |-> code, ret |-> control']
    /\ UNCHANGED <<handlers, regs, lookup, cfg, req, gapPass, glob>>

RECURSIVE flatten(_)
\* the lists of a list, one after the other
flatten(lists) == IF lists = <<>> THEN <<>> ELSE Head(lists) \o flatten(Tail(lists))

\* parser.routes without the loop over the wildcard records
parserRoutesNoWildcard(p, keys, levels) ==
    keys \o flatten([k \in 1..Len(levels) |->
                        [j \in 1..Len(p.fields[levels[k]]) |-> routeOf(p.fields[levels[k]][j].parts)]])

\* parser.routes: the keys of static, the records of every bucket of
\* fields, the wildcard records; keys and levels are the orders in which
\* the two range loops visit the maps
parserRoutes(p, keys, levels) ==
    keys \o flatten([k \in 1..Len(levels) |->
                        [j \in 1..Len(p.fields[levels[k]]) |-> routeOf(p.fields[levels[k]][j].parts)]])
         \o [j \in 1..Len(p.wildcard) |-> routeOf(p.wildcard[j].parts)]

\* the orders in which a range loop can visit each map of each parser
KeyOrders(hs) ==
    {f \in [DOMAIN hs -> UNION {Orderings(DOMAIN hs[m].static) : m \in DOMAIN hs}] :
        \A m \in DOMAIN hs : f[m] \in Orderings(DOMAIN hs[m].static)}

LevelOrders(hs) ==
    {f \in [DOMAIN hs -> UNION {Orderings(DOMAIN hs[m].fields) : m \in DOMAIN hs}] :
        \A m \in DOMAIN hs : f[m] \in Orderings(DOMAIN hs[m].fields)}

\* Router.Routes: a Route for every path of every parser
routerRoutes(hs, methods, keys, levels) ==
    flatten([k \in 1..Len(methods) |->
                LET rs == parserRoutes(hs[methods[k]], keys[methods[k]], levels[methods[k]])
                IN  [j \in 1..Len(rs) |-> [Method |-> methods[k], Path |-> rs[j]]]])

\* Router.Routes
Routes ==
    /\ \E methods \in Orderings(DOMAIN handlers) :
          \E keys \in KeyOrders(handlers), levels \in LevelOrders(handlers) :
             call' = [op |-> "Routes", arg |-> <<>>,
                      ret |-> routerRoutes(handlers, methods, keys, levels)]
    /\ UNCHANGED <<handlers, regs, lookup, cfg, req, gapPass, glob, control>>

-----------------------------------------------------------------------------
(* Router.ServeHTTP, one action per stretch between two calls of user code *)

\* a panic in call r is also delivered to every other call in flight
raiseAll(q, r, events) ==
    [s \in Slots |->
        IF s = r THEN [q[s] EXCEPT !.pc = "recover", !.events = events]
        ELSE IF q[s].pc \in {"match", "invoke", "fallback"}
             THEN [q[s] EXCEPT !.pc = "recover"]
             ELSE q[s]]

\* a panic in call r is swallowed where it happens and the call goes on
raiseContinue(q, r, events) == [q EXCEPT ![r].pc = "fallback", ![r].events = events]

\* a panic in call r unwinds to the deferred function of that call
raise(q, r, events) == [q EXCEPT ![r].pc = "recover", ![r].events = events]

\* a panic inside the deferred function is recovered like any other
propagateRecovered(q, r, events) == [q EXCEPT ![r].pc = "recover", ![r].events = events]

\* a panic inside the deferred function: no recover is left to stop it and
\* it leaves ServeHTTP
propagate(q, r, events) == [q EXCEPT ![r].pc = "propagated", ![r].events = events]

\* the call returns from ServeHTTP
return(q, r, events) == [q EXCEPT ![r].pc = "done", ![r].events = events]

\* the Logger hook is left out
preRequestSkipped(q, r) == {[q EXCEPT ![r].pc = "match"]}

\* if r.Logger != nil { r.Logger(c) }: the hook returns or panics
preRequest(q, r) ==
    IF cfg.Logger
    THEN {[q EXCEPT ![r].pc = "match",
                    ![r].events = <<Ev("logger", NoHandle, <<>>, <<>>, FALSE, FALSE)>>],
          raise(q, r, <<Ev("logger", NoHandle, <<>>, <<>>, FALSE, TRUE)>>)}
    ELSE {[q EXCEPT ![r].pc = "match"]}

\* ServeHTTP is entered; the Logger hook runs when it is set
Begin(r, method, path) ==
    /\ req[r].pc = "idle"
    /\ req' \in preRequest([req EXCEPT ![r].method = method, ![r].path = path], r)
    /\ lookup' = NoLookup
    /\ UNCHANGED <<handlers, regs, cfg, gapPass, glob, control, call>>

\* the lookup for the request method
Match(r) ==
    /\ req[r].pc = "match"
    /\ LET res == IF HasKey(handlers, req[r].method)
                  THEN get(handlers[req[r].method], req[r].path)
                  ELSE NotFoundResult
       IN  IF res.raised
           THEN req' = raise(req, r, req[r].events)
           ELSE IF res.ok
                THEN req' = [req EXCEPT ![r].pc = "invoke", ![r].res = res]
                ELSE req' = [req EXCEPT ![r].pc = "fallback"]
    /\ handlers' = handlersRead(handlers, req[r].method)
    /\ UNCHANGED <<regs, lookup, cfg, gapPass, glob, control, call>>

\* the Control of call r is the one left by the call served before
handlerControlKept(q, r) ==
    controlSet([newControl(<<>>) EXCEPT !.params = q[r].last], q[r].res.params)

\* the Control passed to the handler: a new one, with the parameters that
\* the lookup of this call has bound
handlerControl(q, r) == controlSet(newControl(<<>>), q[r].res.params)

\* the resolved handler (through CustomHandler when set) is called with its
\* Control; it returns or panics
Invoke(r) ==
    /\ req[r].pc = "invoke"
    /\ \E panicked \in BOOLEAN :
          LET ev == Ev("handler", req[r].res.handle, handlerControl(req, r).params, <<>>,
                       cfg.CustomHandler, panicked)
          IN  IF panicked
              THEN req' = raise(req, r, Append(req[r].events, ev))
              ELSE req' = return(req, r, Append(req[r].events, ev))
    /\ UNCHANGED <<handlers, regs, lookup, cfg, gapPass, glob, control, call>>

\* no handler for the request method: AllowedMethods, then NotFound /
\* http.NotFound or the 405 response
Fallback(r) ==
    /\ req[r].pc = "fallback"
    /\ LET am == allowedMethods(handlers, req[r].path)
       IN  IF am.raised
           THEN req' = raise(req, r, req[r].events)
           ELSE IF am.methods = {}
                THEN IF cfg.NotFound
                     THEN \/ req' = return(req, r, Append(req[r].events,
                                        Ev("notfound", NoHandle, <<>>, <<>>, TRUE, FALSE)))
                          \/ req' = raise(req, r, Append(req[r].events,
                                        Ev("notfound", NoHandle, <<>>, <<>>, TRUE, TRUE)))
                     ELSE req' = return(req, r, Append(req[r].events,
                                        Ev("notfound", NoHandle, <<>>, <<>>, FALSE, FALSE)))
                ELSE \E allowed \in Orderings(am.methods) :
                        req' = return(req, r, Append(req[r].events,
                                        Ev("405", NoHandle, <<>>, allowed, FALSE, FALSE)))
    /\ UNCHANGED <<handlers, regs, lookup, cfg, gapPass, glob, control, call>>

\* the deferred function after a panic: PanicHandler when set (a panic of
\* PanicHandler itself leaves ServeHTTP), else the log line
Recover(r) ==
    /\ req[r].pc = "recover"
    /\ IF cfg.PanicHandler
       THEN \/ req' = return(req, r, Append(req[r].events,
                            Ev("panichandler", NoHandle, <<>>, <<>>, FALSE, FALSE)))
            \/ req' = propagate(req, r, Append(req[r].events,
                            Ev("panichandler", NoHandle, <<>>, <<>>, FALSE, TRUE)))
       ELSE req' = return(req, r, Append(req[r].events,
                            Ev("log", NoHandle, <<>>, <<>>, FALSE, FALSE)))
    /\ UNCHANGED <<handlers, regs, lookup, cfg, gapPass, glob, control, call>>

\* ServeHTTP has returned (or its panic has ended the connection) and the
\* goroutine of the slot is ready to serve its next request
NextRequest(r) ==
    /\ req[r].pc \in {"done", "propagated"}
    /\ LET hs == {i \in DOMAIN req[r].events : req[r].events[i].kind = "handler"}
       IN  req' = [req EXCEPT ![r] =
                      [IdleReq EXCEPT !.served = req[r].served + 1,
                                      !.last = IF hs = {} THEN req[r].last
                                               ELSE req[r].events[CHOOSE i \in hs : TRUE].params]]
    /\ UNCHANGED <<handlers, regs, lookup, cfg, gapPass, glob, control, call>>

\* register on the glob-based parser; the n-th registration brings handler n
GlobRegister(path) ==
    /\ LET h == Len(regs) + 1
           r == globRegister(glob, path, h)
       IN  /\ glob' = r.p
           /\ regs' = Append(regs, [method |-> "", path |-> path, handle |-> h, ok |-> r.ok])
    /\ lookup' = NoLookup
    /\ UNCHANGED <<handlers, cfg, req, gapPass, control, call>>

\* get on the glob-based parser: the range over the map p.wildcard visits its
\* keys in an order that every call chooses anew
GlobGet(path) ==
    /\ \E order \in Orderings(DOMAIN glob.wildcard) :
           lookup' = [method |-> "", path |-> path,
                      res |-> globGet(glob, path, order), done |-> TRUE]
    /\ UNCHANGED <<handlers, regs, cfg, req, gapPass, control, call, glob>>

-----------------------------------------------------------------------------
(* Specification of the parser: registrations and lookups for one method *)

InitParser ==
    /\ handlers = EmptyMap
    /\ regs = <<>>
    /\ lookup = NoLookup
    /\ cfg = NoConfig
    /\ req = [r \in Slots |-> IdleReq]
    /\ gapPass = FALSE
    /\ control = newControl(<<>>)
    /\ call = NoCall
    /\ glob = newGlobParser

NextParser ==
    \/ \E m \in ParserMethods, p \in ParserPatterns : Len(regs) < MaxRegs /\ Handle(m, p)
    \/ \E m \in ParserMethods, path \in ParserPaths : Lookup(m, path)

SpecParser == InitParser /\ [][NextParser]_vars

-----------------------------------------------------------------------------
(* Specification of the Router: a Router with any of its optional fields   *)
(* set, routes registered during setup, then one request served            *)

Init ==
    /\ handlers = EmptyMap
    /\ regs = <<>>
    /\ lookup = NoLookup
    /\ cfg \in Configs
    /\ req = [r \in Slots |-> IdleReq]
    /\ gapPass = FALSE
    /\ control = newControl(<<>>)
    /\ call = NoCall
    /\ glob = newGlobParser

Next ==
    \/ \E m \in Methods, p \in RouterPatterns : Len(regs) < MaxRoutes /\ Handle(m, p)
    \/ \E m \in RequestMethods, path \in RouterPaths : Begin("r1", m, path)
    \/ Match("r1")
    \/ Invoke("r1")
    \/ Fallback("r1")
    \/ Recover("r1")

Spec == Init /\ [][Next]_vars

-----------------------------------------------------------------------------
(* Specification of concurrent serving: the routes of ConcRoutes are       *)
(* registered during setup, then two requests are served, their steps      *)
(* interleaved in every way (one after the other included)                 *)

ConcRoutes ==
    << [method |-> "GET", path |-> P_x],
       [method |-> "POST", path |-> P_abStar],
       [method |-> "POST", path |-> P_ab],
       [method |-> "PUT", path |-> P_ab] >>

RECURSIVE setupHandlers(_, _)
\* the handlers map after the first n registrations of routes
setupHandlers(routes, n) ==
    IF n = 0
    THEN EmptyMap
    ELSE routerHandle(setupHandlers(routes, n - 1), routes[n].method, routes[n].path, n)

setupRegs(routes) ==
    [n \in 1..Len(routes) |->
        [method |-> routes[n].method, path |-> routes[n].path, handle |-> n,
         ok |-> registerOk(setupHandlers(routes, n - 1), routes[n].method, routes[n].path, n)]]

InitConc ==
    /\ gapPass = FALSE
    /\ handlers = setupHandlers(ConcRoutes, Len(ConcRoutes))
    /\ regs = setupRegs(ConcRoutes)
    /\ lookup = NoLookup
    /\ cfg \in Configs
    /\ req = [r \in Slots |-> IdleReq]
    /\ control = newControl(<<>>)
    /\ call = NoCall
    /\ glob = newGlobParser

NextConc ==
    \/ \E r \in Slots, m \in RequestMethods, path \in RouterPaths : Begin(r, m, path)
    \/ \E r \in Slots : Match(r)
    \/ \E r \in Slots : Invoke(r)
    \/ \E r \in Slots : Fallback(r)
    \/ \E r \in Slots : Recover(r)

SpecConc == InitConc /\ [][NextConc]_vars

\* the registrations are made; no optional field of the Router is set, or
\* all of them are
InitRead ==
    /\ gapPass = FALSE
    /\ handlers = setupHandlers(ConcRoutes, Len(ConcRoutes))
    /\ regs = setupRegs(ConcRoutes)
    /\ lookup = NoLookup
    /\ cfg \in {NoConfig, [NotFound |-> TRUE, PanicHandler |-> TRUE,
                           CustomHandler |-> TRUE, Logger |-> TRUE]}
    /\ req = [r \in Slots |-> IdleReq]
    /\ control = newControl(<<>>)
    /\ call = NoCall
    /\ glob = newGlobParser

\* concurrent ServeHTTP calls together with Lookup, AllowedMethods and
\* Routes calls made by the program, all after the registrations
NextRead ==
    \/ \E r \in Slots, m \in ReadMethods, path \in ReadPaths : Begin(r, m, path)
    \/ \E r \in Slots : Match(r)
    \/ \E r \in Slots : Invoke(r)
    \/ \E r \in Slots : Fallback(r)
    \/ \E r \in Slots : Recover(r)
    \/ \E m \in ReadMethods : Lookup(m, R_ab)
    \/ AllowedMethods(R_ab)
    \/ Routes

SpecRead == InitRead /\ [][NextRead]_vars

-----------------------------------------------------------------------------
(* Specification of literal patterns: registrations of literal patterns,    *)
(* written canonically or not, among others, and lookups of paths that are  *)
(* other spellings of them                                                 *)

NextLiteral ==
    \/ \E m \in ParserMethods, p \in LiteralPatterns : Len(regs) < MaxRegs /\ Handle(m, p)
    \/ \E m \in ParserMethods, path \in LiteralPaths : Lookup(m, path)

SpecLiteral == InitParser /\ [][NextLiteral]_vars

-----------------------------------------------------------------------------
(* Specification of the sorted buckets: a program built with either kind of *)
(* sort.Sort registers parameterized patterns of one segment count, enough  *)
(* of them for the gap of 6 to matter, and looks paths up                   *)

InitSort ==
    /\ handlers = EmptyMap
    /\ regs = <<>>
    /\ lookup = NoLookup
    /\ cfg = NoConfig
    /\ req = [r \in Slots |-> IdleReq]
    /\ gapPass \in BOOLEAN
    /\ control = newControl(<<>>)
    /\ call = NoCall
    /\ glob = newGlobParser

NextSort ==
    \/ \E m \in ParserMethods, p \in SortPatterns : Len(regs) < MaxSortRegs /\ Handle(m, p)
    \/ \E m \in ParserMethods, path \in SortPaths : Lookup(m, path)

SpecSort == InitSort /\ [][NextSort]_vars

-----------------------------------------------------------------------------
(* Specification of serving in sequence: the routes of ConcRoutes are       *)
(* registered during setup, then requests are served one after the other    *)

NextServe ==
    \/ \E m \in RequestMethods, path \in ServePaths : Begin("r1", m, path)
    \/ Match("r1")
    \/ Invoke("r1")
    \/ Fallback("r1")
    \/ Recover("r1")
    \/ req["r1"].served + 1 < MaxServed /\ NextRequest("r1")

SpecServe == InitConc /\ [][NextServe]_vars

-----------------------------------------------------------------------------
(* Specification of the enumeration: registrations for two methods, some of *)
(* them refused, and calls of Routes                                        *)

NextRoutes ==
    \/ \E m \in RoutesMethods, p \in RoutesPatterns : Len(regs) < MaxRegs /\ Handle(m, p)
    \/ Routes

SpecRoutes == InitParser /\ [][NextRoutes]_vars

-----------------------------------------------------------------------------
(* Specification of the Control: a Control as new, or as ServeHTTP hands it *)
(* to the handler of /:n/:n, for a request with any of the query strings;   *)
(* then calls of Set, Get and Code                                          *)

InitControl ==
    /\ handlers = EmptyMap
    /\ regs = <<>>
    /\ lookup = NoLookup
    /\ cfg = NoConfig
    /\ req = [r \in Slots |-> IdleReq]
    /\ gapPass = FALSE
    /\ \E query \in Queries :
          control \in {newControl(query),
                       controlSet(newControl(query), get(register(newParser, P_nn, 1).p, R_12).params)}
    /\ call = NoCall
    /\ glob = newGlobParser

NextControl ==
    \/ \E params \in SetArgs : ControlSet(params)
    \/ \E name \in Names : ControlGet(name)
    \/ \E code \in Codes : ControlCode(code)

SpecControl == InitControl /\ [][NextControl]_vars

-----------------------------------------------------------------------------
(* Specification of the depth limit: split, registrations and lookups of    *)
(* paths of about maxLevel parts                                            *)

\* registrations, some of them refused, then lookups and Routes calls
NextFail ==
    \/ \E rt \in FailRoutes : Len(regs) < MaxRegs /\ Handle(rt.method, rt.path)
    \/ \E m \in RoutesMethods, path \in FailPaths : Lookup(m, path)
    \/ Routes

SpecFail == InitParser /\ [][NextFail]_vars

\* registrations of parameterized patterns at the depth limit and beyond,
\* segmentations of paths there, lookups of short paths
NextWrap ==
    \/ \E p \in WrapPatterns : Len(regs) < MaxRegs /\ Handle("GET", p)
    \/ \E path \in WrapSplitPaths : Split(path)
    \/ \E path \in WrapPaths : Lookup("GET", path)

SpecWrap == InitParser /\ [][NextWrap]_vars

\* registrations of patterns with a wildcard segment before their end, then
\* lookups
NextTrunc ==
    \/ \E p \in TruncPatterns : Len(regs) < MaxRegs /\ Handle("GET", p)
    \/ \E path \in TruncPaths : Lookup("GET", path)

SpecTrunc == InitParser /\ [][NextTrunc]_vars

NextSplit ==
    \/ \E path \in SplitPaths : Split(path)
    \/ \E m \in ParserMethods, p \in SplitPatterns : Len(regs) < MaxRegs /\ Handle(m, p)
    \/ \E m \in ParserMethods, path \in SplitPaths : Lookup(m, path)

SpecSplit == InitParser /\ [][NextSplit]_vars

-----------------------------------------------------------------------------
(* Specification of the segmentation: split applied to every short string   *)

NextSegment == \E path \in SegmentInputs : Split(path)

SpecSegment == InitParser /\ [][NextSegment]_vars

\* the glob-based parser alone: registrations, then gets
NextGlob ==
    \/ \E p \in GlobPatterns : Len(regs) < MaxRegs /\ GlobRegister(p)
    \/ \E path \in GlobPaths : GlobGet(path)

SpecGlob == InitParser /\ [][NextGlob]_vars

-----
(* Vocabulary of the properties: what a registered pattern is and which     *)
(* request paths it matches, read off the registration log regs.           *)

isCatchAll(path) == trim(path, " ") = asterisk

segsOf(path) == split(path).parts

canonical(path) == IF isCatchAll(path) THEN asterisk ELSE routeOf(segsOf(path))

nParams(parts) == Cardinality({k \in DOMAIN parts : isParam(parts[k])})

hasWildcard(parts) == \E k \in DOMAIN parts : isWildcard(parts[k])

kindOf(path) ==
    IF isCatchAll(path) THEN "catchAll"
    ELSE IF hasWildcard(segsOf(path)) THEN "wildcard"
    ELSE IF nParams(segsOf(path)) = 0 THEN "exact"
    ELSE "byLength"

segMatches(seg, part) == isParam(seg) \/ seg = part

\* a pattern without wildcard matches the paths of its own segment count
matchesFull(pp, rp) ==
    Len(pp) = Len(rp) /\ \A k \in DOMAIN pp : segMatches(pp[k], rp[k])

\* the segments before the first wildcard segment
prefixLen(pp) == (CHOOSE k \in DOMAIN pp : isWildcard(pp[k]) /\ \A j \in 1..(k - 1) : ~isWildcard(pp[j])) - 1

\* a wildcard pattern matches the paths that start with its prefix
matchesWild(pp, rp) ==
    Len(rp) >= prefixLen(pp) /\ \A k \in 1..prefixLen(pp) : segMatches(pp[k], rp[k])

\* the successful registrations for the looked-up method
Seen == {i \in DOMAIN regs : regs[i].method = lookup.method /\ regs[i].ok}

SeenOfKind(kind) == {i \in Seen : kindOf(regs[i].path) = kind}

\* the registrations that the looked-up path matches, bucket by bucket
ExactHits ==
    {i \in SeenOfKind("exact") :
        \/ canonical(regs[i].path) = lookup.path
        \/ split(lookup.path).ok /\ canonical(regs[i].path) = routeOf(segsOf(lookup.path))}

ByLengthHits ==
    {i \in SeenOfKind("byLength") :
        split(lookup.path).ok /\ matchesFull(segsOf(regs[i].path), segsOf(lookup.path))}

WildcardHits ==
    {i \in SeenOfKind("wildcard") :
        split(lookup.path).ok /\ matchesWild(segsOf(regs[i].path), segsOf(lookup.path))}

\* the registrations whose pattern is the one the last Lookup reported
SameAsMatched == {i \in Seen : canonical(regs[i].path) = lookup.res.route}

MinOf(S) == CHOOSE n \in S : \A m \in S : n <= m

MaxOf(S) == CHOOSE n \in S : \A m \in S : n >= m

\* the parameters a pattern binds on a path: one per parameter segment, in
\* pattern order
bindings(pp, rp) ==
    LET idx == SelectSeq([k \in 1..Len(pp) |-> k], LAMBDA k : isParam(pp[k]))
    IN  [j \in 1..Len(idx) |-> [Key |-> pp[idx[j]], Value |-> rp[idx[j]]]]

ReturnedFrom(S) ==
    /\ lookup.res.ok
    /\ \E i \in S : /\ lookup.res.handle = regs[i].handle
                    /\ lookup.res.route = canonical(regs[i].path)

-----------------------------------------------------------------------------
(* Properties of the parser, under SpecParser *)

\* C1: resolve never raises: every Lookup, for every registry and every
\* request path, returns normally (absence is reported by found = false).
C1_NeverRaises == lookup.done => ~lookup.res.raised

\* C2: when two or more parameterized patterns of the path's segment count
\* match the path (and resolve gets to the byLength stage: no catch-all, no
\* exact match), the result is the handler and route of a matching pattern
\* with the fewest parameter segments, with exactly the parameters that
\* pattern binds, whatever the registration order.
C2_Specificity ==
    (/\ lookup.done
     /\ Cardinality(ByLengthHits) >= 2
     /\ SeenOfKind("catchAll") = {}
     /\ ExactHits = {})
    => LET fewest == MinOf({nParams(segsOf(regs[i].path)) : i \in ByLengthHits})
       IN  /\ lookup.res.ok
           /\ Len(lookup.res.params) = fewest
           /\ \E i \in ByLengthHits :
                 /\ nParams(segsOf(regs[i].path)) = fewest
                 /\ lookup.res.handle = regs[i].handle
                 /\ lookup.res.route = canonical(regs[i].path)
                 /\ lookup.res.params = bindings(segsOf(regs[i].path), segsOf(lookup.path))

\* two matching parameterized patterns with different numbers of parameters,
\* the more specific one registered last
C2_Witness ==
    /\ lookup.done /\ lookup.res.ok
    /\ SeenOfKind("catchAll") = {} /\ ExactHits = {}
    /\ \E i, j \in ByLengthHits :
          /\ i < j
          /\ nParams(segsOf(regs[j].path)) < nParams(segsOf(regs[i].path))
          /\ lookup.res.handle = regs[j].handle

\* C3: strict precedence of resolve: catch-all, else exact (raw or
\* canonical path), else a matching parameterized pattern of the same
\* segment count, else a matching wildcard pattern, else found = false.
C3_Precedence ==
    lookup.done =>
        /\ ~lookup.res.raised
        /\ IF SeenOfKind("catchAll") # {} THEN ReturnedFrom(SeenOfKind("catchAll"))
           ELSE IF ExactHits # {} THEN ReturnedFrom(ExactHits)
           ELSE IF ByLengthHits # {} THEN ReturnedFrom(ByLengthHits)
           ELSE IF WildcardHits # {} THEN ReturnedFrom(WildcardHits)
           ELSE ~lookup.res.ok

C5_CatchAll ==
    (lookup.done /\ SeenOfKind("catchAll") # {})
    => /\ lookup.res.ok
       /\ lookup.res.handle = regs[MaxOf(SeenOfKind("catchAll"))].handle
       /\ lookup.res.params = <<>>
       /\ lookup.res.route = asterisk

\* the catch-all, written with spaces, answers a path that split refuses
\* while another pattern is registered too
C5_Witness ==
    /\ lookup.done /\ lookup.res.ok
    /\ lookup.path = R_deep
    /\ ~split(lookup.path).ok
    /\ \E i \in SeenOfKind("catchAll") : regs[i].path = P_starSp
    /\ Seen \ SeenOfKind("catchAll") # {}

-----------------------------------------------------------------------------
(* Vocabulary of the serving properties *)

Finished(r) == req[r].pc \in {"done", "propagated"}

\* the events of call r of one kind
EventsOf(r, kind) == {i \in DOMAIN req[r].events : req[r].events[i].kind = kind}

\* a user function called by call r panicked
CallbackFailed(r) == \E i \in DOMAIN req[r].events : req[r].events[i].panicked

\* the resolved handler of call r panicked
HandlerFailed(r) == \E i \in EventsOf(r, "handler") : req[r].events[i].panicked

\* the registry of method m resolves the path
Resolves(m, path) == routerLookup(handlers, m, path).ok

ResolvingMethods(path) == {m \in DOMAIN handlers : Resolves(m, path)}

Range(f) == {f[i] : i \in DOMAIN f}

IsPrefix(a, b) == Len(a) <= Len(b) /\ SubSeq(b, 1, Len(a)) = a

\* the events with the Allow list taken as a set
Unordered(events) ==
    [i \in DOMAIN events |-> [events[i] EXCEPT !.allowed = Range(events[i].allowed)]]

\* what a call of ServeHTTP(method, path) does on this Router when it is
\* the only call and no user function panics
ServedAlone(method, path) ==
    LET pre   == IF cfg.Logger
                 THEN <<Ev("logger", NoHandle, <<>>, {}, FALSE, FALSE)>>
                 ELSE <<>>
        rec   == IF cfg.PanicHandler
                 THEN <<Ev("panichandler", NoHandle, <<>>, {}, FALSE, FALSE)>>
                 ELSE <<Ev("log", NoHandle, <<>>, {}, FALSE, FALSE)>>
        own   == routerLookup(handlers, method, path)
        am    == allowedMethods(handlers, path)
    IN  IF own.raised THEN pre \o rec
        ELSE IF own.ok
        THEN pre \o <<Ev("handler", own.handle, own.params, {}, cfg.CustomHandler, FALSE)>>
        ELSE IF am.raised THEN pre \o rec
        ELSE IF am.methods = {}
        THEN pre \o <<Ev("notfound", NoHandle, <<>>, {}, cfg.NotFound, FALSE)>>
        ELSE pre \o <<Ev("405", NoHandle, <<>>, am.methods, FALSE, FALSE)>>

-----------------------------------------------------------------------------
(* Properties of ServeHTTP, under Spec *)

\* C6: when no user function fails, a finished call has produced exactly
\* one outcome: the resolved handler is called iff the request method
\* resolves the path; else the 405 iff some method resolves it; else the
\* not-found outcome (NotFound when set, http.NotFound otherwise).
C6_Trichotomy ==
    \A r \in Slots :
        (Finished(r) /\ ~CallbackFailed(r))
        => LET own == Resolves(req[r].method, req[r].path)
               any == ResolvingMethods(req[r].path) # {}
               nH  == Cardinality(EventsOf(r, "handler"))
               n405 == Cardinality(EventsOf(r, "405"))
               n404 == Cardinality(EventsOf(r, "notfound"))
           IN  /\ nH + n405 + n404 = 1
               /\ nH = 1 <=> own
               /\ n405 = 1 <=> (~own /\ any)
               /\ n404 = 1 <=> ~any
               /\ \A i \in EventsOf(r, "handler") :
                     req[r].events[i].handle = routerLookup(handlers, req[r].method, req[r].path).handle
               /\ \A i \in EventsOf(r, "notfound") : req[r].events[i].custom = cfg.NotFound

\* C7: when no user function fails, the request method does not resolve
\* the path and some other method does, the call ends with one 405 whose
\* Allow list holds exactly the methods that resolve the path, each once,
\* never the request's own method.
C7_AllowSet ==
    \A r \in Slots :
        (/\ Finished(r) /\ ~CallbackFailed(r)
         /\ ~Resolves(req[r].method, req[r].path)
         /\ ResolvingMethods(req[r].path) \ {req[r].method} # {})
        => /\ Cardinality(EventsOf(r, "405")) = 1
           /\ \A i \in EventsOf(r, "405") :
                 LET allowed == req[r].events[i].allowed
                 IN  /\ Range(allowed) = ResolvingMethods(req[r].path)
                     /\ Len(allowed) = Cardinality(Range(allowed))
                     /\ allowed # <<>>
                     /\ req[r].method \notin Range(allowed)

\* C8: whenever the request method has no registry, or no handler is found
\* for the request's method and path, a finished call (whose Logger did not
\* panic) has called NotFound, or http.NotFound when NotFound is not set.
C8_NotFoundCalled ==
    \A r \in Slots :
        (/\ Finished(r)
         /\ \A i \in EventsOf(r, "logger") : ~req[r].events[i].panicked
         /\ \/ ~HasKey(handlers, req[r].method)
            \/ ~Resolves(req[r].method, req[r].path))
        => /\ Cardinality(EventsOf(r, "notfound")) = 1
           /\ \A i \in EventsOf(r, "notfound") : req[r].events[i].custom = cfg.NotFound

\* C9: a panic of the resolved handler does not leave ServeHTTP: the call
\* goes to its recovery and, once finished, has called PanicHandler exactly
\* once when it is set, or written the log line exactly once when it is
\* not, and has produced no 404 and no 405; the call ends by a panic only
\* when PanicHandler itself panicked.
C9_Containment ==
    \A r \in Slots :
        HandlerFailed(r)
        => /\ req[r].pc \in {"recover", "done", "propagated"}
           /\ EventsOf(r, "notfound") = {}
           /\ EventsOf(r, "405") = {}
           /\ Cardinality(EventsOf(r, "handler")) = 1
           /\ Finished(r) =>
                 /\ Cardinality(EventsOf(r, "panichandler")) = (IF cfg.PanicHandler THEN 1 ELSE 0)
                 /\ Cardinality(EventsOf(r, "log")) = (IF cfg.PanicHandler THEN 0 ELSE 1)
           /\ req[r].pc = "propagated" =>
                 \E i \in EventsOf(r, "panichandler") : req[r].events[i].panicked

\* a handler panicked, PanicHandler was called and returned
C9_Witness ==
    \E r \in Slots :
        /\ HandlerFailed(r)
        /\ req[r].pc = "done"
        /\ cfg.PanicHandler
        /\ \E i \in EventsOf(r, "panichandler") : ~req[r].events[i].panicked

-----------------------------------------------------------------------------
(* Properties of concurrent serving, under SpecConc *)

\* C10: a call none of whose user functions fails does, at every point of
\* every interleaving with another call (failing or not), what it does when
\* served alone: same resolved handler and bound parameters, same events so
\* far, and in the end the same outcome; it reaches the recovery only when
\* its own lookups raise.
C10_Isolation ==
    \A r \in Slots :
        (req[r].pc # "idle" /\ ~CallbackFailed(r))
        => LET alone == ServedAlone(req[r].method, req[r].path)
               own   == routerLookup(handlers, req[r].method, req[r].path)
           IN  /\ IsPrefix(Unordered(req[r].events), alone)
               /\ req[r].pc # "propagated"
               /\ req[r].pc = "done" => Unordered(req[r].events) = alone
               /\ req[r].pc = "invoke" => req[r].res = own
               /\ req[r].pc = "recover" =>
                     own.raised \/ allowedMethods(handlers, req[r].path).raised

\* one call's handler has panicked and is not yet recovered while another
\* call, holding its own resolved handler and bound parameters, is in flight
C10_Witness ==
    \E r, s \in Slots :
        /\ r # s
        /\ HandlerFailed(r) /\ req[r].pc = "recover"
        /\ req[s].pc = "invoke"
        /\ req[s].res.params # <<>>
        /\ req[s].path # req[r].path

-----------------------------------------------------------------------------
(* Vocabulary of patterns and paths defined on the characters of the        *)
(* string, without the parser's own functions                               *)

\* the positions that delimit the parts of s: before s, each "/", after s
Cuts(s) ==
    SelectSeq([i \in 1..(Len(s) + 2) |-> i - 1],
              LAMBDA i : i = 0 \/ i = Len(s) + 1 \/ s[i] = "/")

\* the first and the last position of s between lo and hi that does not
\* hold the character ch
FirstNot(s, lo, hi, ch) == CHOOSE i \in lo..hi : s[i] # ch /\ \A j \in lo..(i - 1) : s[j] = ch

LastNot(s, lo, hi, ch) == CHOOSE i \in lo..hi : s[i] # ch /\ \A j \in (i + 1)..hi : s[j] = ch

\* s from lo to hi without the spaces at its ends
Strip(s, lo, hi) ==
    IF \A i \in lo..hi : s[i] = " " THEN <<>>
    ELSE SubSeq(s, FirstNot(s, lo, hi, " "), LastNot(s, lo, hi, " "))

\* the segments of a pattern or path: its slash-delimited parts, each
\* without the spaces around it, the empty ones left out
Segments(s) ==
    LET c == Cuts(s)
    IN  SelectSeq([k \in 1..(Len(c) - 1) |-> Strip(s, c[k] + 1, c[k + 1] - 1)],
                  LAMBDA v : v # <<>>)

\* the number of slash-delimited parts of s once the slashes at its ends
\* are removed, empty parts included
RawCount(s) ==
    IF \A i \in 1..Len(s) : s[i] = "/" THEN 0
    ELSE 1 + Cardinality({i \in FirstNot(s, 1, Len(s), "/")..LastNot(s, 1, Len(s), "/") :
                             s[i] = "/"})

RECURSIVE Slashed(_, _, _)
Slashed(segs, lo, hi) ==
    IF lo > hi THEN <<>>
    ELSE IF lo = hi THEN <<"/">> \o segs[lo]
    ELSE Slashed(segs, lo, (lo + hi) \div 2) \o Slashed(segs, ((lo + hi) \div 2) + 1, hi)

\* the canonical form: "/" before every segment, "/" alone for no segment
Canonical(s) ==
    LET segs == Segments(s)
    IN  IF segs = <<>> THEN <<"/">> ELSE Slashed(segs, 1, Len(segs))

IsCatchAllPattern(s) == Strip(s, 1, Len(s)) = <<"*">>

IsParamSeg(seg) == seg[1] = ":"

IsWildSeg(seg) == seg = <<"*">>

IsLiteralOnly(s) ==
    LET segs == Segments(s)
    IN  \A k \in DOMAIN segs : ~IsParamSeg(segs[k]) /\ ~IsWildSeg(segs[k])

\* the registrations made for the method of the last Lookup
Registered == {i \in DOMAIN regs : regs[i].method = lookup.method}

CatchAllRegistered == \E i \in Registered : IsCatchAllPattern(regs[i].path)

-----------------------------------------------------------------------------
(* Properties of literal patterns, under SpecLiteral *)

\* C11 as claimed: after register(M, P, H) of a literal-only pattern P,
\* resolve(M, P) returns found = true, the handler H, no parameters and the
\* matched pattern P.
C11_RoundTrip ==
    (/\ lookup.done /\ regs # <<>>
     /\ regs[Len(regs)].method = lookup.method
     /\ regs[Len(regs)].path = lookup.path
     /\ IsLiteralOnly(lookup.path))
    => lookup.res = FoundResult(regs[Len(regs)].handle, <<>>, lookup.path)

\* C11 amended: after register(M, P, H) of a literal-only pattern P of fewer
\* than maxLevel slash-delimited parts, with no catch-all registered for M,
\* resolve(M, P) returns found = true, the handler H, no parameters and, as
\* matched pattern, the canonical form of P.
C11_RoundTripCanonical ==
    (/\ lookup.done /\ regs # <<>>
     /\ regs[Len(regs)].method = lookup.method
     /\ regs[Len(regs)].path = lookup.path
     /\ IsLiteralOnly(lookup.path)
     /\ RawCount(lookup.path) < maxLevel
     /\ ~CatchAllRegistered)
    => lookup.res = FoundResult(regs[Len(regs)].handle, <<>>, Canonical(lookup.path))

\* a literal pattern written with a doubled slash, a space and a trailing
\* slash is registered after other patterns and then looked up as written
C11_Witness ==
    /\ lookup.done /\ lookup.res.ok
    /\ Len(regs) >= 2
    /\ regs[Len(regs)].path = R_abSl
    /\ lookup.path = R_abSl
    /\ lookup.res.route = P_ab
    /\ lookup.res.handle = Len(regs)
    /\ ~CatchAllRegistered

\* the registered literal-only patterns whose segments are those of the path
\* of the last Lookup
SameSegments ==
    LET segs == Segments(lookup.path)
    IN  {i \in Registered : /\ regs[i].ok
                             /\ ~IsCatchAllPattern(regs[i].path)
                             /\ Segments(regs[i].path) = segs
                             /\ IsLiteralOnly(regs[i].path)}

\* C12 as claimed: a path that has the segments of a registered literal-only
\* pattern resolves to the handler of that pattern (the one it was last
\* registered with); so "/" answers every path without segments.
C12_SameSegments ==
    (lookup.done /\ SameSegments # {})
    => /\ lookup.res.ok
       /\ lookup.res.handle = regs[MaxOf(SameSegments)].handle

\* C12 amended: the same for the paths of fewer than maxLevel
\* slash-delimited parts, when no catch-all is registered for the method;
\* the result has no parameters and the canonical form as matched pattern.
C12_SameSegmentsInDepth ==
    (/\ lookup.done /\ SameSegments # {}
     /\ RawCount(lookup.path) < maxLevel
     /\ ~CatchAllRegistered)
    => lookup.res = FoundResult(regs[MaxOf(SameSegments)].handle, <<>>, Canonical(lookup.path))

\* /a/b is registered, then registered again, and a path that spells it
\* with a doubled slash, a space and a trailing slash finds the second
\* handler
C12_Witness ==
    /\ lookup.done /\ lookup.res.ok
    /\ lookup.path = R_abSl
    /\ Cardinality(SameSegments) = 2
    /\ \A i \in SameSegments : regs[i].path = P_ab
    /\ lookup.res.handle = regs[MaxOf(SameSegments)].handle

\* "/" is registered and a path of slashes only finds it
C12_WitnessRoot ==
    /\ lookup.done /\ lookup.res.ok
    /\ lookup.path = R_slashes
    /\ \E i \in SameSegments : regs[i].path = P_root /\ lookup.res.handle = regs[i].handle

-----------------------------------------------------------------------------
(* Properties of parameters and wildcards, under SpecParser *)

\* the positions of the parameter segments of a pattern
ParamPositions(pp) == {k \in DOMAIN pp : IsParamSeg(pp[k])}

\* C13: when the pattern that wins has parameter segments and no wildcard,
\* the parameters returned are one per parameter segment, in pattern order,
\* each with the segment itself (":" included) as key and the request
\* segment of the same position as value; literal segments give nothing.
C13_Binding ==
    LET pp == Segments(lookup.res.route)
        rp == Segments(lookup.path)
    IN  (/\ lookup.done /\ lookup.res.ok
         /\ ParamPositions(pp) # {}
         /\ \A k \in DOMAIN pp : ~IsWildSeg(pp[k]))
        => /\ Len(pp) = Len(rp)
           /\ Len(lookup.res.params) = Cardinality(ParamPositions(pp))
           /\ \A j \in DOMAIN lookup.res.params :
                 \E k \in ParamPositions(pp) :
                    /\ Cardinality({i \in ParamPositions(pp) : i < k}) = j - 1
                    /\ lookup.res.params[j] = [Key |-> pp[k], Value |-> rp[k]]

\* /:x/:y wins on /a/b and binds :x = a, then :y = b
C13_Witness ==
    /\ lookup.done /\ lookup.res.ok
    /\ lookup.path = R_ab
    /\ lookup.res.route = P_xy
    /\ lookup.res.params = << [Key |-> <<":", "x">>, Value |-> <<"a">>],
                              [Key |-> <<":", "y">>, Value |-> <<"b">>] >>

\* a pattern whose last segment, and no other, is the wildcard marker
IsTrailingWild(pp) ==
    /\ pp # <<>>
    /\ IsWildSeg(pp[Len(pp)])
    /\ \A k \in 1..(Len(pp) - 1) : ~IsWildSeg(pp[k])

\* the leading segments of the path match the prefix of the pattern
PrefixMatches(pp, rp) ==
    /\ Len(rp) >= Len(pp) - 1
    /\ \A k \in 1..(Len(pp) - 1) : IsParamSeg(pp[k]) \/ pp[k] = rp[k]

\* the registered trailing-wildcard patterns that match the path of the
\* last Lookup
TrailingWildHits ==
    LET rp == Segments(lookup.path)
    IN  {i \in Registered : /\ regs[i].ok
                             /\ ~IsCatchAllPattern(regs[i].path)
                             /\ IsTrailingWild(Segments(regs[i].path))
                             /\ PrefixMatches(Segments(regs[i].path), rp)}

\* C14: a path (of fewer than maxLevel parts, no catch-all registered) whose
\* leading segments match the prefix of a registered trailing-wildcard
\* pattern is found; when the pattern reported has a wildcard it is such a
\* registered pattern, with its handler, and the parameters are those of
\* its prefix only.
C14_TrailingWildcard ==
    (/\ lookup.done /\ TrailingWildHits # {}
     /\ RawCount(lookup.path) < maxLevel
     /\ ~CatchAllRegistered)
    => /\ lookup.res.ok
       /\ (\E k \in DOMAIN Segments(lookup.res.route) : IsWildSeg(Segments(lookup.res.route)[k]))
          => \E i \in TrailingWildHits :
                LET pp == Segments(regs[i].path)
                IN  /\ lookup.res.handle = regs[i].handle
                    /\ lookup.res.route = Canonical(regs[i].path)
                    /\ lookup.res.params = bindings(SubSeq(pp, 1, Len(pp) - 1), Segments(lookup.path))

-----------------------------------------------------------------------------
(* Properties of the sorted buckets, under SpecSort *)

\* the specificity key of a pattern: parameters * 256 + literals
KeyOf(pp) ==
    (Cardinality(ParamPositions(pp)) * 256) + (Len(pp) - Cardinality(ParamPositions(pp)))

\* the registered parameterized patterns that match the path of the last
\* Lookup, segment by segment
ParamHits ==
    LET rp == Segments(lookup.path)
    IN  {i \in Registered :
            LET pp == Segments(regs[i].path)
            IN  /\ regs[i].ok
                /\ ParamPositions(pp) # {}
                /\ \A k \in DOMAIN pp : ~IsWildSeg(pp[k])
                /\ Len(pp) = Len(rp)
                /\ \A k \in DOMAIN pp : IsParamSeg(pp[k]) \/ pp[k] = rp[k]}

\* C15: in every bucket the records of equal key stand in the order of
\* their registration (handler n is the one of the n-th registration), and
\* a Lookup that matching parameterized patterns answer returns the one
\* registered first among those of the least key.
C15_StableTies ==
    /\ \A m \in DOMAIN handlers : \A level \in DOMAIN handlers[m].fields :
          LET data == handlers[m].fields[level]
          IN  \A i, j \in DOMAIN data :
                 (i < j /\ data[i].key = data[j].key) => data[i].handle < data[j].handle
    /\ (lookup.done /\ ParamHits # {})
       => LET least == MinOf({KeyOf(Segments(regs[i].path)) : i \in ParamHits})
          IN  lookup.res.handle =
                 regs[MinOf({i \in ParamHits : KeyOf(Segments(regs[i].path)) = least})].handle

-----------------------------------------------------------------------------
(* Properties of serving in sequence, under SpecServe *)

\* C16: whatever was served before, the handler that a call invokes and the
\* parameters in the Control it is given are those that the registry
\* resolves for the method and path of the call, nothing else; and a call
\* none of whose user functions fails ends with the outcome that the
\* Router, the method and the path determine.
C16_Stateless ==
    \A r \in Slots :
        LET own == routerLookup(handlers, req[r].method, req[r].path)
        IN  /\ \A i \in EventsOf(r, "handler") :
                  /\ req[r].events[i].handle = own.handle
                  /\ req[r].events[i].params = own.params
            /\ (req[r].pc = "done" /\ ~CallbackFailed(r))
               => Unordered(req[r].events) = ServedAlone(req[r].method, req[r].path)

\* the third request of the slot has been given its own parameter while
\* the request before it had bound another value
C16_Witness ==
    \E r \in Slots :
        /\ req[r].served = 2
        /\ req[r].pc = "done"
        /\ req[r].last # <<>>
        /\ \E i \in EventsOf(r, "handler") :
              /\ req[r].events[i].params # <<>>
              /\ req[r].events[i].params # req[r].last

-----------------------------------------------------------------------------
(* Properties of the enumeration, under SpecRoutes *)

\* the canonical form of a pattern; the catch-all is "*"
CanonicalPattern(s) == IF IsCatchAllPattern(s) THEN <<"*">> ELSE Canonical(s)

\* C17: the Routes listed are exactly the pairs (method, canonical form of
\* the pattern) of the registrations that succeeded: each of them is
\* listed, nothing else is, and a refused registration adds nothing.
C17_Enumeration ==
    call.op = "Routes"
    => Range(call.ret) =
          {[Method |-> regs[i].method, Path |-> CanonicalPattern(regs[i].path)] :
              i \in {j \in DOMAIN regs : regs[j].ok}}

\* Routes is called after a refused registration, a catch-all written with
\* spaces and a literal pattern not written canonically, for two methods
C17_Witness ==
    /\ call.op = "Routes"
    /\ \E i \in DOMAIN regs : ~regs[i].ok /\ regs[i].method = "POST"
    /\ [Method |-> "GET", Path |-> <<"*">>] \in Range(call.ret)
    /\ [Method |-> "POST", Path |-> P_ab] \in Range(call.ret)
    /\ Len(call.ret) = 2

-----------------------------------------------------------------------------
(* Properties of the Control, under SpecControl *)

\* the positions of the bound parameters, and of the query values, of a key
BoundAt(name) == {k \in DOMAIN control.params : control.params[k].Key = name}

QueryAt(name) == {k \in DOMAIN control.query : control.query[k].Key = name}

C18_WitnessQuery ==
    /\ call.op = "Get"
    /\ BoundAt(call.arg) = {}
    /\ control.params # <<>>
    /\ Cardinality(QueryAt(call.arg)) = 2
    /\ call.ret = <<"2">>

\* C19: Code(code) stores code when 200 <= code < 600 and leaves the stored
\* status as it was for every other code; nothing else of the Control
\* changes and the Control is the value returned.
C19_Code ==
    [][call'.op = "Code"
       => /\ control'.code = (IF 200 <= call'.arg /\ call'.arg < 600 THEN call'.arg ELSE control.code)
          /\ control'.params = control.params
          /\ control'.query = control.query
          /\ call'.ret = control']_vars

\* a stored status has survived a call of Code(600)
C19_Witness ==
    /\ call.op = "Code"
    /\ call.arg = 600
    /\ control.code = 404

\* a new Control still has status 0 after Code(606)
C19_WitnessFresh ==
    /\ call.op = "Code"
    /\ call.arg = 606
    /\ control.code = 0

-----------------------------------------------------------------------------
(* Properties of the depth limit, under SpecSplit *)

\* C20: split succeeds on the paths of at most 255 slash-delimited parts
\* and on no other; a pattern that split refuses is not registered, and a
\* Lookup of a path that split refuses returns found = false and does not
\* raise.
C20_DepthBoundary ==
    /\ call.op = "split" => (call.ret.ok <=> RawCount(call.arg) <= 255)
    /\ \A i \in DOMAIN regs : RawCount(regs[i].path) > 255 => ~regs[i].ok
    /\ (lookup.done /\ RawCount(lookup.path) > 255)
       => (~lookup.res.ok /\ ~lookup.res.raised)

-----------------------------------------------------------------------------
(* Properties of the segmentation, under SpecSegment *)

IsBlank(c) == c \in {" ", "\t"}

\* s from lo to hi without the whitespace at its ends
BlankStrip(s, lo, hi) ==
    LET inner == {i \in lo..hi : ~IsBlank(s[i])}
    IN  IF inner = {} THEN <<>> ELSE SubSeq(s, MinOf(inner), MaxOf(inner))

\* the slash-delimited parts that are not empty once the whitespace around
\* them is removed, each without that whitespace
BlankSegments(s) ==
    LET c == Cuts(s)
    IN  SelectSeq([k \in 1..(Len(c) - 1) |-> BlankStrip(s, c[k] + 1, c[k + 1] - 1)],
                  LAMBDA v : v # <<>>)

\* C21 as claimed: within the depth limit split returns the slash-delimited
\* parts that are not empty after trimming the whitespace around them, each
\* trimmed, in order; no segment is empty, whitespace only or holds a "/";
\* an input of slashes and whitespace only gives no segment.
C21_Whitespace ==
    (call.op = "split" /\ RawCount(call.arg) < maxLevel)
    => /\ call.ret.ok
       /\ call.ret.parts = BlankSegments(call.arg)
       /\ \A k \in DOMAIN call.ret.parts :
             /\ \E i \in DOMAIN call.ret.parts[k] : ~IsBlank(call.ret.parts[k][i])
             /\ \A i \in DOMAIN call.ret.parts[k] : call.ret.parts[k][i] # "/"
       /\ (\A i \in DOMAIN call.arg : call.arg[i] = "/" \/ IsBlank(call.arg[i]))
          => call.ret.parts = <<>>

\* C21 amended: the same with the space character in place of whitespace:
\* only spaces are trimmed, a tab is a character of a segment like any other.
C21_Spaces ==
    (call.op = "split" /\ RawCount(call.arg) < maxLevel)
    => /\ call.ret.ok
       /\ call.ret.parts = Segments(call.arg)
       /\ \A k \in DOMAIN call.ret.parts :
             /\ \E i \in DOMAIN call.ret.parts[k] : call.ret.parts[k][i] # " "
             /\ \A i \in DOMAIN call.ret.parts[k] : call.ret.parts[k][i] # "/"
       /\ (\A i \in DOMAIN call.arg : call.arg[i] \in {"/", " "})
          => call.ret.parts = <<>>

\* split has dropped an empty part and trimmed the spaces of another
C21_Witness ==
    /\ call.op = "split"
    /\ call.arg = <<"/", "/", "a", " ">>
    /\ call.ret.ok
    /\ call.ret.parts = << <<"a">> >>

\* split has kept a part that is a tab
C21_WitnessTab ==
    /\ call.op = "split"
    /\ call.arg = <<"a", "/", "\t">>
    /\ call.ret.parts = << <<"a">>, <<"\t">> >>

-----------------------------------------------------------------------------
(* The glob-based parser *)

\* the places of the parser that hold an entry made for the pattern
BucketsOf(pattern) ==
    LET segs == Segments(pattern)
    IN  {b \in {"catchAll", "exact", "byLength", "wildcard"} :
            \/ b = "catchAll" /\ IsCatchAllPattern(pattern) /\ HasKey(glob.static, <<"*">>)
            \/ b = "exact" /\ HasKey(glob.static, Canonical(pattern))
            \/ b = "byLength" /\ \E level \in DOMAIN glob.fields :
                                     \E k \in DOMAIN glob.fields[level] :
                                         glob.fields[level][k].parts = segs
            \/ b = "wildcard" /\ HasKey(glob.wildcard, pattern)}

\* C22: after any sequence of register calls on the glob-based parser every
\* registered pattern is held by exactly one of the exact map, the byLength
\* buckets, the wildcard set and the catch-all slot: the bare "*" only by
\* the catch-all slot, a pattern with a '*' in it by no exact or byLength
\* entry.
C22_SingleBucket ==
    \A i \in DOMAIN regs :
        (regs[i].method = "" /\ regs[i].ok) =>
            LET held == BucketsOf(regs[i].path)
            IN  /\ Cardinality(held) = 1
                /\ IsCatchAllPattern(regs[i].path) => held = {"catchAll"}
                /\ (\E k \in DOMAIN regs[i].path : regs[i].path[k] = "*") =>
                       held \cap {"exact", "byLength"} = {}

\* C23: once the registrations are made, two calls of get with the same path
\* return the same handler, parameters and found flag, also when several
\* wildcard patterns with different handlers match the path.
C23_Purity ==
    [][(lookup.done /\ lookup'.done /\ lookup'.path = lookup.path /\ glob' = glob)
          => lookup'.res = lookup.res]_vars

-----------------------------------------------------------------------------
(* The hooks of ServeHTTP *)

\* the Logger hook of call r returned (or is not set)
LoggerPassed(r) == \A i \in EventsOf(r, "logger") : ~req[r].events[i].panicked

\* C24: with CustomHandler set, a call whose (method, path) resolves calls
\* CustomHandler(handler) once, with the parameters bound by the lookup, and
\* never the handler itself; Logger, NotFound, PanicHandler and the 405
\* response never go through CustomHandler.
C24_Decorator ==
    \A r \in Slots :
        LET res == routerLookup(handlers, req[r].method, req[r].path)
            hs  == EventsOf(r, "handler")
        IN  /\ \A i \in DOMAIN req[r].events :
                   req[r].events[i].wrapped =
                       (cfg.CustomHandler /\ req[r].events[i].kind = "handler")
            /\ \A i \in hs : /\ res.ok
                              /\ req[r].events[i].handle = res.handle
                              /\ req[r].events[i].params = res.params
            /\ Cardinality(hs) <= 1
            /\ (cfg.CustomHandler /\ Finished(r) /\ res.ok /\ LoggerPassed(r))
                   => Cardinality(hs) = 1

\* a decorated handler was called with a bound parameter
C24_Witness ==
    /\ cfg.CustomHandler
    /\ Finished("r1")
    /\ \E i \in EventsOf("r1", "handler") :
           req["r1"].events[i].wrapped /\ req["r1"].events[i].params # <<>>

\* the user's NotFound handler was called on a Router with CustomHandler set
C24_WitnessNotFound ==
    /\ cfg.CustomHandler
    /\ cfg.NotFound
    /\ Finished("r1")
    /\ EventsOf("r1", "notfound") # {}

\* C25: with Logger set, every call of ServeHTTP calls it once, and before
\* anything else the call does: the lookup, the handler, NotFound, the 405
\* response and the recovery all come after it.
C25_LoggerFirst ==
    \A r \in Slots :
        /\ (cfg.Logger /\ req[r].pc # "idle") => EventsOf(r, "logger") = {1}
        /\ ~cfg.Logger => EventsOf(r, "logger") = {}
        /\ (cfg.Logger /\ req[r].pc = "match") => Len(req[r].events) = 1

\* a logged call whose handler failed
C25_Witness ==
    /\ cfg.Logger
    /\ Finished("r1")
    /\ HandlerFailed("r1")
    /\ req["r1"].events[1].kind = "logger"

\* a logged call answered with 405
C25_Witness405 ==
    /\ cfg.Logger
    /\ Finished("r1")
    /\ EventsOf("r1", "405") = {2}

-----------------------------------------------------------------------------
(* Serving reads only *)

\* the method table as the registrations left it
RegisteredTable == setupHandlers(ConcRoutes, Len(ConcRoutes))

\* C26: Lookup, AllowedMethods, Routes and ServeHTTP, in any interleaving of
\* concurrent callers, leave every registry (exact map, byLength buckets
\* with their order, wildcard list, catch-all) as registration left it.
C26_ReadOnly == handlers = RegisteredTable

\* two ServeHTTP calls overlap, one done and one about to call its handler,
\* after a Lookup of a method without registry and a Routes call
C26_Witness ==
    /\ Finished("r1")
    /\ req["r2"].pc = "invoke"
    /\ lookup.done /\ lookup.method = "DELETE"
    /\ call.op = "Routes"

\* a call for a method without registry has been answered with 405 after an
\* AllowedMethods call of the program
C26_WitnessAllowed ==
    /\ Finished("r1")
    /\ req["r1"].method = "DELETE"
    /\ EventsOf("r1", "405") # {}
    /\ call.op = "AllowedMethods"

-----------------------------------------------------------------------------
(* Refused registrations *)

RECURSIVE AcceptedTable(_)
\* the method table that the accepted ones among the first n registrations
\* make, each with the handler it came with
AcceptedTable(n) ==
    IF n = 0 THEN EmptyMap
    ELSE IF regs[n].ok
         THEN routerHandle(AcceptedTable(n - 1), regs[n].method, regs[n].path, regs[n].handle)
         ELSE AcceptedTable(n - 1)

\* the routes of a table with its maps visited in some order
SomeRoutes(hs) ==
    routerRoutes(hs, CHOOSE o \in Orderings(DOMAIN hs) : TRUE,
                     CHOOSE k \in KeyOrders(hs) : TRUE,
                     CHOOSE l \in LevelOrders(hs) : TRUE)

\* C27: register fails exactly when the segmentation of the pattern fails
\* (never for the bare catch-all), and a failed register stores nothing:
\* the registries, every lookup and every Routes result are those of the
\* accepted registrations alone.
C27_Failure ==
    LET T == AcceptedTable(Len(regs))
    IN  /\ \A i \in DOMAIN regs :
               regs[i].ok = (IsCatchAllPattern(regs[i].path) \/ RawCount(regs[i].path) < maxLevel)
        /\ DOMAIN T \subseteq DOMAIN handlers
        /\ \A m \in DOMAIN handlers :
               handlers[m] = IF HasKey(T, m) THEN T[m] ELSE newParser
        /\ lookup.done => lookup.res = routerLookup(T, lookup.method, lookup.path)
        /\ call.op = "Routes" =>
               /\ Range(call.ret) = Range(SomeRoutes(T))
               /\ Len(call.ret) = Len(SomeRoutes(T))

\* a pattern was refused between two accepted ones, then a path was
\* resolved and Routes called
C27_Witness ==
    /\ Len(regs) = 3
    /\ regs[1].ok /\ ~regs[2].ok /\ regs[3].ok
    /\ lookup.done /\ lookup.res.ok
    /\ call.op = "Routes"

\* the only registration of a method was refused
C27_WitnessAlone ==
    /\ \E i \in DOMAIN regs :
           ~regs[i].ok /\ \A j \in DOMAIN regs : regs[j].method = regs[i].method => j = i
    /\ lookup.done
    /\ call.op = "Routes"

-----------------------------------------------------------------------------
(* The widths of the registry indices *)

ParamCount(segs) == Cardinality({k \in DOMAIN segs : IsParamSeg(segs[k])})

LiteralCount(segs) ==
    Cardinality({k \in DOMAIN segs : ~IsParamSeg(segs[k]) /\ ~IsWildSeg(segs[k])})

\* parameter count * 256 + literal count of a sequence of segments, in
\* integers without a width
TrueKey(segs) == (256 * ParamCount(segs)) + LiteralCount(segs)

\* the records of every byLength bucket of every registry, with the bucket
AllRecords ==
    UNION {UNION {{[level |-> l, rec |-> handlers[m].fields[l][k]] :
                      k \in DOMAIN handlers[m].fields[l]} :
                  l \in DOMAIN handlers[m].fields} :
           m \in DOMAIN handlers}

\* C28: a pattern or path that split accepts has at most 254 segments, so
\* every record of bucket n has exactly n segments, its key is parameter
\* count * 256 + literal count without overflow, and the order of the keys
\* is the lexicographic order on (parameter count, literal count).
C28_NoWrap ==
    /\ \A i \in DOMAIN regs :
           (regs[i].ok /\ ~IsCatchAllPattern(regs[i].path)) =>
               LET segs == Segments(regs[i].path)
               IN  /\ Len(segs) <= 254
                   /\ ParamCount(segs) > 0 =>
                          \E e \in AllRecords : e.level = Len(segs) /\ e.rec.parts = segs
    /\ (call.op = "split" /\ call.ret.ok) => Len(call.ret.parts) <= 254
    /\ \A e \in AllRecords :
           /\ Len(e.rec.parts) = e.level
           /\ e.rec.key = TrueKey(e.rec.parts)
    /\ \A e, f \in AllRecords :
           e.rec.key < f.rec.key <=>
               \/ ParamCount(e.rec.parts) < ParamCount(f.rec.parts)
               \/ /\ ParamCount(e.rec.parts) = ParamCount(f.rec.parts)
                  /\ LiteralCount(e.rec.parts) < LiteralCount(f.rec.parts)

\* patterns of 254 segments are registered, one with a single parameter and
\* one made of parameters only, with the keys 1 * 256 + 253 and 254 * 256
C28_Witness ==
    /\ \E e \in AllRecords : e.level = 254 /\ e.rec.key = 509
    /\ \E e \in AllRecords : e.level = 254 /\ e.rec.key = 65024
    /\ \E i \in DOMAIN regs : ~regs[i].ok

-----------------------------------------------------------------------------
(* Wildcard segments before the end of a pattern *)

\* the pattern cut right after its first wildcard segment, when segments
\* follow it; any other pattern as it is
Truncated(pattern) ==
    LET segs  == Segments(pattern)
        wilds == {k \in DOMAIN segs : IsWildSeg(segs[k])}
    IN  IF IsCatchAllPattern(pattern) \/ wilds = {} \/ MinOf(wilds) = Len(segs)
        THEN pattern
        ELSE Slashed(segs, 1, MinOf(wilds))

RECURSIVE TruncatedTable(_)
\* the method table of the first n registrations, each made with its
\* pattern truncated
TruncatedTable(n) ==
    IF n = 0 THEN EmptyMap
    ELSE routerHandle(TruncatedTable(n - 1), regs[n].method, Truncated(regs[n].path),
                      regs[n].handle)

\* C29: a pattern with a wildcard segment before its end matches the paths
\* that the pattern cut after its first wildcard segment matches, and binds
\* the same parameters: what follows the wildcard is never compared and a
\* parameter segment there is never bound.
C29_Truncation ==
    lookup.done =>
        LET cut == routerLookup(TruncatedTable(Len(regs)), lookup.method, lookup.path)
        IN  /\ lookup.res.ok = cut.ok
            /\ lookup.res.raised = cut.raised
            /\ lookup.res.handle = cut.handle
            /\ lookup.res.params = cut.params
            /\ \A k \in DOMAIN lookup.res.params : lookup.res.params[k].Key # <<":", "y">>

\* "/:x/*/:y" has matched a path of two segments and bound :x alone
C29_Witness ==
    /\ lookup.done /\ lookup.res.ok
    /\ lookup.path = R_cd
    /\ lookup.res.route = P_xStarY
    /\ lookup.res.params = <<[Key |-> <<":", "x">>, Value |-> <<"c">>]>>

-----------------------------------------------------------------------------
(* The recovery of ServeHTTP *)

\* call r has called a user function of the kind that panicked
Failed(r, kind) == \E i \in EventsOf(r, kind) : req[r].events[i].panicked

\* C30: a panic of PanicHandler, called by the deferred recovery, is not
\* recovered again and leaves ServeHTTP; a panic of the Logger hook or of
\* the NotFound handler is recovered like a panic of a handler: PanicHandler
\* is called once when set, else the log line is written once.
C30_NotReentrant ==
    \A r \in Slots :
        /\ Failed(r, "panichandler") =>
               /\ req[r].pc = "propagated"
               /\ EventsOf(r, "panichandler") = {Len(req[r].events)}
               /\ EventsOf(r, "log") = {}
        /\ req[r].pc = "propagated" => Failed(r, "panichandler")
        /\ (Failed(r, "logger") \/ Failed(r, "notfound") \/ Failed(r, "handler")) =>
               /\ req[r].pc \in {"recover", "done", "propagated"}
               /\ Finished(r) =>
                      /\ Cardinality(EventsOf(r, "panichandler")) = (IF cfg.PanicHandler THEN 1 ELSE 0)
                      /\ Cardinality(EventsOf(r, "log")) = (IF cfg.PanicHandler THEN 0 ELSE 1)
                      /\ req[r].pc = "done" <=> ~Failed(r, "panichandler")
        /\ Failed(r, "logger") => Len(req[r].events) <= 2

\* PanicHandler panicked while handling the panic of a handler
C30_Witness ==
    /\ req["r1"].pc = "propagated"
    /\ Failed("r1", "handler")
    /\ Failed("r1", "panichandler")

\* a panic of the Logger hook was handed to PanicHandler, which returned
C30_WitnessLogger ==
    /\ req["r1"].pc = "done"
    /\ Failed("r1", "logger")
    /\ EventsOf("r1", "panichandler") = {2}

\* a panic of the NotFound handler was recovered with the log line
C30_WitnessNotFound ==
    /\ req["r1"].pc = "done"
    /\ Failed("r1", "notfound")
    /\ EventsOf("r1", "log") # {}

====
